---- MODULE Spec2Model ----
(***************************************************************************)
(* Streaming chat: the stream producer of src/app/api/chat/stream/route.ts *)
(* (the ReadableStream built by streamFromOpenAI) and the stream consumer  *)
(* of src/hooks/useStreamingChat.ts (a wrapper over the AI SDK's useChat). *)
(* With them the POST handlers of the two routes (api/chat/stream and       *)
(* api/chat) and the MessageInput component.                               *)
(*                                                                         *)
(* Text is a sequence of symbols.  On the upstream side a symbol stands    *)
(* for a run of characters that no read boundary needs to cut:             *)
(*   "D"  the six characters 'data: '                                      *)
(*   "a","b"  a JSON payload {"choices":[{"delta":{"content":c}}]} whose   *)
(*            content is the non-empty fragment "a" / "b"                  *)
(*   "e"  the same payload with an empty (or absent) content               *)
(*   "x"  a payload that JSON.parse rejects                                *)
(*   "F"  the characters '[DONE]'                                          *)
(*   "sp" a blank, "nl" a line feed                                        *)
(***************************************************************************)
EXTENDS Integers, Sequences, FiniteSets, TLC

\* ---------------------------------------------------------------- bounds
MaxLines == 3
MaxSends == 2
MaxDeltas == 2
MaxMessages == 2
MaxLength == 4

Null == "null"

VARIABLES
  \* producer (one request's ReadableStream)
  upLines,      \* the lines the Token Source sends, as indexes into LineKinds
  upTail,       \* an unterminated last line the Token Source may send
  pos,          \* number of upstream symbols read so far
  buffer,       \* `buffer`, the incomplete line kept between reads
  out,          \* the events enqueued on the response body, in order
  bodyState,    \* "readable" | "closed" (controller.close) | "cancelled" (client)
  ppc,          \* position of start(): "init" | "reading" | "returned" | "rejected"
  readerLocked, \* the lock start() holds on response.body
  upFailed,     \* reader.read() rejected (transport error)
  \* consumer (one useStreamingChat instance)
  messages,     \* useChat's message list: [id, role, text, live]
  status,       \* useChat's status
  error,        \* useChat's error (Null or the error message)
  responses,    \* the requests makeRequest has opened, in order: each the state
                \* of its streamed assistant message and whether it is still open
  nextId,       \* generateId
  nDeltas,      \* number of text-deltas delivered so far (bounded)
  \* the hook's environment
  lastCall,     \* the hook operation the last step called, "none" for the others
  idle,         \* ticks of time passed since the last wire event
  \* the route's POST handler
  request,      \* the request POST handled last: its body, the environment
  response,     \* the response POST returned for it
  upstreamCalls, \* the requests POST sent to the Token Source for it
  \* the MessageInput component
  inputValue,   \* `value`, the text of the textarea (useState)
  isDisabled,   \* the isDisabled prop of the last render
  sent          \* the onSendMessage calls of the last step: [content, disabled]

pvars == <<upLines, upTail, pos, buffer, out, bodyState, ppc, readerLocked, upFailed>>
cvars == <<messages, status, error, responses, nextId, nDeltas>>
evars == <<lastCall, idle>>
hvars == <<request, response, upstreamCalls>>
ivars == <<inputValue, isDisabled, sent>>
vars == <<upLines, upTail, pos, buffer, out, bodyState, ppc, readerLocked, upFailed,
          messages, status, error, responses, nextId, nDeltas, lastCall, idle,
          request, response, upstreamCalls, inputValue, isDisabled, sent>>

\* ============================================================ PRODUCER ==

\* ----------------------------------------------------- the POST handler

\* JSON values as JavaScript sees them.
Undef == [t |-> "undefined", v |-> ""]
Str(x) == [t |-> "string", v |-> x]
Num(x) == [t |-> "number", v |-> x]

\* !x is false
Truthy(x) ==
  /\ x.t \notin {"undefined", "null"}
  /\ ~(x.t = "string" /\ x.v = "")
  /\ ~(x.t = "number" /\ x.v = "0")

\* The elements a messages array may hold: null, or an object with these
\* values of id, role and content.
NullMessage == [t |-> "null", id |-> Undef, role |-> Undef, content |-> Undef]
Ids == { Undef, Str("msg-1") }
Roles == { Str("user"), Str("assistant"), Str("system") }
Contents == { Undef, Str(""), Str("Hello"), Num("7") }
MessageValues ==
  { NullMessage } \cup [t : {"object"}, id : Ids, role : Roles, content : Contents]

\* The values of the messages field: absent, a string, an array.
MessagesValues ==
  { [t |-> "undefined", items |-> <<>>], [t |-> "string", items |-> <<>>] }
    \cup { [t |-> "array", items |-> items] :
             items \in UNION { [1..n -> MessageValues] : n \in 0..MaxMessages } }

\* The values of the model field.
Models == { Undef, Str("gpt-4"), Str("gpt-3.5-turbo"), Str("gpt-5-mini") }

\* The request bodies: text that is not JSON, the JSON value null, an object.
InvalidJson == [json |-> "invalid", messages |-> [t |-> "undefined", items |-> <<>>], model |-> Undef]
NullBody == [json |-> "null", messages |-> [t |-> "undefined", items |-> <<>>], model |-> Undef]
Bodies ==
  { InvalidJson, NullBody }
    \cup [json : {"object"}, messages : MessagesValues, model : Models]

\* process.env.OPENAI_API_KEY: not set, set to the empty string, set.
Keys == { Undef, Str(""), Str("sk-test") }

\* How the Token Source answers a connection.
UpstreamAnswers == { "ok with body", "ok without body", "not ok", "rejects" }

\* The two routes with a POST handler.
StreamRoute == "/api/chat/stream"
ChatRoute == "/api/chat"

\* A request that has come in, and the placeholder before any has.
Requests ==
  [handled : {FALSE}, route : {StreamRoute}, body : Bodies, key : Keys,
   upstream : UpstreamAnswers]
    \cup [handled : {FALSE}, route : {ChatRoute}, body : Bodies, key : Keys,
          upstream : {"ok with body"}]
NoRequest ==
  [handled |-> FALSE, route |-> StreamRoute, body |-> InvalidJson, key |-> Undef,
   upstream |-> "not ok"]
NoResponse == [status |-> 0, kind |-> "none", error |-> "", headers |-> {}]

\* The loop of validateStreamRequest over body.messages: the first message
\* that fails a test ends it; reading a property of null throws.
RECURSIVE ValidateMessages(_)
ValidateMessages(items) ==
  IF items = <<>> THEN [threw |-> FALSE, isValid |-> TRUE, error |-> ""]
  ELSE LET message == Head(items) IN
    IF message.t = "null"
      THEN [threw |-> TRUE, isValid |-> FALSE, error |-> "TypeError"]
    ELSE IF ~Truthy(message.id) \/ ~Truthy(message.role) \/ ~Truthy(message.content)
      THEN [threw |-> FALSE, isValid |-> FALSE,
            error |-> "Invalid message format: missing id, role, or content"]
    ELSE IF message.role \notin { Str("user"), Str("assistant") }
      THEN [threw |-> FALSE, isValid |-> FALSE,
            error |-> "Invalid message role: must be \"user\" or \"assistant\""]
    ELSE IF message.content.t # "string"
      THEN [threw |-> FALSE, isValid |-> FALSE,
            error |-> "Message content must be a string"]
    ELSE ValidateMessages(Tail(items))

validateStreamRequest(body) ==
  IF body.json = "null"
    THEN [threw |-> TRUE, isValid |-> FALSE, error |-> "TypeError"]
  ELSE IF body.messages.t = "undefined"
    THEN [threw |-> FALSE, isValid |-> FALSE, error |-> "Missing required field: messages"]
  ELSE IF body.messages.t # "array" \/ body.messages.items = <<>>
    THEN [threw |-> FALSE, isValid |-> FALSE, error |-> "Messages must be a non-empty array"]
  ELSE ValidateMessages(body.messages.items)

convertToOpenAIMessages(items) ==
  [i \in 1..Len(items) |-> [role |-> items[i].role, content |-> items[i].content]]

\* The names streamFromOpenAI can read: the module's declarations and
\* imports, its own parameters and locals.  POST's local OPENAI_API_KEY is
\* not one of them.
ModuleScope ==
  { "NextRequest", "NextResponse", "getOpenAIKey", "validateStreamRequest",
    "convertToOpenAIMessages", "parseOpenAIChunk", "streamFromOpenAI", "POST", "OPTIONS" }
StreamFromOpenAIScope == ModuleScope \cup { "messages", "model", "openAIMessages", "response" }

\* streamFromOpenAI up to the ReadableStream it returns: the argument of
\* fetch is evaluated first, and reading a name that is not in scope throws
\* a ReferenceError before fetch is called.
streamFromOpenAI(items, model, upstream) ==
  IF "OPENAI_API_KEY" \notin StreamFromOpenAIScope
    THEN [threw |-> TRUE, calls |-> <<>>]
  ELSE [threw |-> upstream # "ok with body",
        calls |-> << [model |-> model, messages |-> convertToOpenAIMessages(items)] >>]

JsonResponse(st, err) == [status |-> st, kind |-> "json", error |-> err, headers |-> {}]
StreamResponse ==
  [status |-> 200, kind |-> "stream", error |-> "",
   headers |-> { <<"Content-Type", "text/event-stream">>,
                 <<"Cache-Control", "no-cache">>,
                 <<"Connection", "keep-alive">>,
                 <<"Access-Control-Allow-Origin", "*">>,
                 <<"Access-Control-Allow-Methods", "GET, POST, PUT, DELETE, OPTIONS">>,
                 <<"Access-Control-Allow-Headers", "Content-Type">> }]

\* An outer catch that lets the exception go: POST returns no response.
OuterCatch_Rethrows == [status |-> 0, kind |-> "exception", error |-> "TypeError", headers |-> {}]

\* The outer catch of POST.
OuterCatch == JsonResponse(500, "Internal server error")

\* if (!OPENAI_API_KEY): every key is taken for a configured one.
KeyConfigured_Always(key) == TRUE

\* if (!OPENAI_API_KEY)
KeyConfigured(key) == Truthy(key)

\* const model = body.model || 'gpt-4'
ModelOf(body) == IF Truthy(body.model) THEN body.model.v ELSE "gpt-4"

\* What POST answers to a request, and what it sent to the Token Source.
PostResult(req) ==
  IF req.body.json = "invalid"
    THEN [response |-> JsonResponse(400, "Invalid JSON in request body"), calls |-> <<>>]
  ELSE LET validation == validateStreamRequest(req.body) IN
    IF validation.threw
      THEN [response |-> OuterCatch, calls |-> <<>>]
    ELSE IF ~validation.isValid
      THEN [response |-> JsonResponse(400, validation.error), calls |-> <<>>]
    ELSE IF ~KeyConfigured(req.key)
      THEN [response |-> JsonResponse(500, "OpenAI API key not configured"), calls |-> <<>>]
    ELSE LET stream == streamFromOpenAI(req.body.messages.items, ModelOf(req.body), req.upstream) IN
      IF stream.threw
        THEN [response |-> JsonResponse(500, "Failed to stream response from AI provider"),
              calls |-> stream.calls]
      ELSE [response |-> StreamResponse, calls |-> stream.calls]

\* convertToModelMessages(messages), as far as role and content go.
convertToModelMessages(items) ==
  [i \in 1..Len(items) |-> [role |-> items[i].role, content |-> items[i].content]]

\* result.toTextStreamResponse()
TextStreamResponse ==
  [status |-> 200, kind |-> "stream", error |-> "",
   headers |-> { <<"Content-Type", "text/plain; charset=utf-8">> }]

\* What the POST of /api/chat answers to a request.  convertToModelMessages
\* and streamText are library code: whether they throw for these messages
\* is left open.
ChatPostResult(req, libraryThrows) ==
  IF req.body.json \in {"invalid", "null"}
    THEN [response |-> JsonResponse(500, "Failed to process chat request"), calls |-> <<>>]
  ELSE IF req.body.messages.t # "array" \/ req.body.messages.items = <<>>
    THEN [response |-> JsonResponse(400, "Messages array is required and cannot be empty"),
          calls |-> <<>>]
  ELSE IF ~Truthy(req.key)
    THEN [response |-> JsonResponse(500, "OpenAI API key not configured"), calls |-> <<>>]
  ELSE IF libraryThrows
    THEN [response |-> JsonResponse(500, "Failed to process chat request"), calls |-> <<>>]
  ELSE [response |-> TextStreamResponse,
        calls |-> << [model |-> "gpt-4o-mini",
                      messages |-> convertToModelMessages(req.body.messages.items)] >>]

\* POST(req) of /api/chat
ChatPOST(libraryThrows) ==
  /\ ~request.handled
  /\ request.route = ChatRoute
  /\ request' = [request EXCEPT !.handled = TRUE]
  /\ response' = ChatPostResult(request, libraryThrows).response
  /\ upstreamCalls' = ChatPostResult(request, libraryThrows).calls

\* POST(request)
POST ==
  /\ ~request.handled
  /\ request.route = StreamRoute
  /\ request' = [request EXCEPT !.handled = TRUE]
  /\ response' = PostResult(request).response
  /\ upstreamCalls' = PostResult(request).calls


\* The lines a Token Source may send.
LineKinds ==
  << <<"D", "a", "nl">>,             \* 1 fragment "a"
     <<"sp", "D", "b", "sp", "nl">>, \* 2 fragment "b" in a padded line
     <<"D", "e", "nl">>,             \* 3 fragment with empty content
     <<"D", "x", "nl">>,             \* 4 malformed payload
     <<"D", "F", "nl">>,             \* 5 the [DONE] marker
     <<"nl">> >>                     \* 6 the blank line that ends an SSE event

\* What the Token Source meant by a line of each kind.
KindFragment == <<"a", "b", "", "", "", "">>
DoneKind == 5
MalformedKind == 4

Tails == { <<>>, <<"D", "b">> }

RECURSIVE Flatten(_)
Flatten(ks) == IF ks = <<>> THEN <<>> ELSE LineKinds[Head(ks)] \o Flatten(Tail(ks))

Upstream == Flatten(upLines) \o upTail

\* String.prototype.split('\n'): n line feeds give n+1 pieces.
RECURSIVE SplitNL(_, _)
SplitNL(s, cur) ==
  IF s = <<>> THEN <<cur>>
  ELSE IF Head(s) = "nl" THEN <<cur>> \o SplitNL(Tail(s), <<>>)
  ELSE SplitNL(Tail(s), Append(cur, Head(s)))

\* String.prototype.trim()
RECURSIVE TrimLeft(_)
TrimLeft(s) == IF s # <<>> /\ Head(s) = "sp" THEN TrimLeft(Tail(s)) ELSE s

RECURSIVE TrimRight(_)
TrimRight(s) ==
  IF s # <<>> /\ s[Len(s)] = "sp" THEN TrimRight(SubSeq(s, 1, Len(s) - 1)) ELSE s

Trim(s) == TrimRight(TrimLeft(s))

\* trimmedLine.startsWith('data: '): a trimmed line that is 'data: ' alone has
\* lost its last blank and does not start with the prefix.
StartsWithData(t) == Len(t) >= 2 /\ t[1] = "D"

Event(t, d) == [type |-> t, delta |-> d]
Heartbeat == Event("heartbeat", "")
Complete == Event("complete", "")
ErrorEvent == Event("error", "msg")

\* A StreamChunk (isNull FALSE) or the null parseOpenAIChunk returns.
StreamChunk(d, dn) == [isNull |-> FALSE, delta |-> d, done |-> dn]
NullChunk == [isNull |-> TRUE, delta |-> "", done |-> FALSE]

\* parseOpenAIChunk: JSON.parse skips surrounding blanks; a payload that does
\* not parse, or has no choices[0].delta, gives null.
parseOpenAIChunk(chunk) ==
  LET t == Trim(chunk) IN
  IF t = <<"F">> THEN StreamChunk("", TRUE)
  ELSE IF Len(t) = 1 /\ t[1] \in {"a", "b"} THEN StreamChunk(t[1], FALSE)
  ELSE IF Len(t) = 1 /\ t[1] = "e" THEN StreamChunk("", FALSE)
  ELSE NullChunk

\* ProcessLines without the return after [DONE]: complete is enqueued and the
\* loop goes on.
RECURSIVE ProcessLines_NoReturn(_, _, _)
ProcessLines_NoReturn(lines, o, canEnqueue) ==
  IF lines = <<>> THEN [out |-> o, res |-> "continue"]
  ELSE
    LET trimmedLine == Trim(Head(lines)) IN
    IF StartsWithData(trimmedLine) THEN
      LET chunkData == Tail(trimmedLine) IN
      IF chunkData = <<"F">> THEN
        IF canEnqueue THEN ProcessLines_NoReturn(Tail(lines), Append(o, Complete), canEnqueue)
        ELSE [out |-> o, res |-> "threw"]
      ELSE
        LET streamChunk == parseOpenAIChunk(chunkData) IN
        IF ~streamChunk.isNull /\ streamChunk.delta # "" THEN
          IF canEnqueue
          THEN ProcessLines_NoReturn(Tail(lines), Append(o, Event("chunk", streamChunk.delta)), canEnqueue)
          ELSE [out |-> o, res |-> "threw"]
        ELSE ProcessLines_NoReturn(Tail(lines), o, canEnqueue)
    ELSE ProcessLines_NoReturn(Tail(lines), o, canEnqueue)

\* The for loop over the complete lines of one read.  canEnqueue is FALSE once
\* the client has cancelled the body: controller.enqueue then throws.
\* res: "continue" (loop goes on to the next read), "done" ([DONE]: complete
\* enqueued, return), "threw" (enqueue threw inside the try block).
RECURSIVE ProcessLines(_, _, _)
ProcessLines(lines, o, canEnqueue) ==
  IF lines = <<>> THEN [out |-> o, res |-> "continue"]
  ELSE
    LET trimmedLine == Trim(Head(lines)) IN
    IF StartsWithData(trimmedLine) THEN
      LET chunkData == Tail(trimmedLine) IN
      IF chunkData = <<"F">> THEN
        IF canEnqueue THEN [out |-> Append(o, Complete), res |-> "done"]
        ELSE [out |-> o, res |-> "threw"]
      ELSE
        LET streamChunk == parseOpenAIChunk(chunkData) IN
        IF ~streamChunk.isNull /\ streamChunk.delta # "" THEN
          IF canEnqueue
          THEN ProcessLines(Tail(lines), Append(o, Event("chunk", streamChunk.delta)), canEnqueue)
          ELSE [out |-> o, res |-> "threw"]
        ELSE ProcessLines(Tail(lines), o, canEnqueue)
    ELSE ProcessLines(Tail(lines), o, canEnqueue)

\* The incomplete line dropped instead of kept.
KeepIncompleteLine_Dropped(lines) == <<>>

\* lines.pop() || ''
KeepIncompleteLine(lines) == lines[Len(lines)]

\* The loop run over every piece of the split, the incomplete one included.
CompleteLines_All(lines) == lines

\* The lines left in the array after lines.pop(): the ones the loop processes.
CompleteLines(lines) == SubSeq(lines, 1, Len(lines) - 1)

InitProducer ==
  /\ upLines \in UNION { [1..n -> 1..Len(LineKinds)] : n \in 0..MaxLines }
  /\ upTail \in Tails
  /\ pos = 0
  /\ buffer = <<>>
  /\ out = <<>>
  /\ bodyState = "readable"
  /\ ppc = "init"
  /\ readerLocked = FALSE
  /\ upFailed = FALSE

\* A start(controller) that writes no heartbeat.
ProducerStart_NoHeartbeat ==
  /\ ppc = "init"
  /\ readerLocked' = TRUE
  /\ ppc' = "reading"
  /\ UNCHANGED <<upLines, upTail, pos, buffer, out, bodyState, upFailed>>

\* start(controller) up to its first await: getReader, the heartbeat, read().
ProducerStart ==
  /\ ppc = "init"
  /\ readerLocked' = TRUE
  /\ out' = Append(out, Heartbeat)
  /\ ppc' = "reading"
  /\ UNCHANGED <<upLines, upTail, pos, buffer, bodyState, upFailed>>

\* The catch block entered because controller.enqueue threw: its own enqueue
\* throws again, finally releases the lock and start() rejects.
EnqueueThrew ==
  /\ ppc' = "rejected"
  /\ readerLocked' = FALSE
  /\ UNCHANGED <<out, bodyState>>

\* reader.read() resolves with k more symbols: one iteration of the loop.
UpstreamRead(k) ==
  /\ ppc = "reading"
  /\ k \in 1..(Len(Upstream) - pos)
  /\ LET value == SubSeq(Upstream, pos + 1, pos + k)
         lines == SplitNL(buffer \o value, <<>>)
         r == ProcessLines(CompleteLines(lines), out, bodyState = "readable")
     IN /\ pos' = pos + k
        /\ buffer' = KeepIncompleteLine(lines)
        /\ \/ /\ r.res = "continue"
              /\ out' = r.out
              /\ UNCHANGED <<bodyState, ppc, readerLocked>>
           \/ /\ r.res = "done"
              /\ out' = r.out
              /\ bodyState' = "closed"
              /\ ppc' = "returned"
              /\ readerLocked' = FALSE
           \/ /\ r.res = "threw"
              /\ EnqueueThrew
  /\ UNCHANGED <<upLines, upTail, upFailed>>

\* reader.read() resolves with done: complete is enqueued and the loop breaks.
UpstreamEnd ==
  /\ ppc = "reading"
  /\ pos = Len(Upstream)
  /\ IF bodyState = "readable"
     THEN /\ out' = Append(out, Complete)
          /\ ppc' = "returned"
          /\ readerLocked' = FALSE
          /\ UNCHANGED bodyState
     ELSE EnqueueThrew
  /\ UNCHANGED <<upLines, upTail, pos, buffer, upFailed>>

\* The catch block without controller.close().
UpstreamError_NoClose ==
  /\ ppc = "reading"
  /\ upFailed' = TRUE
  /\ IF bodyState = "readable"
     THEN /\ out' = Append(out, ErrorEvent)
          /\ ppc' = "returned"
          /\ readerLocked' = FALSE
          /\ UNCHANGED bodyState
     ELSE EnqueueThrew
  /\ UNCHANGED <<upLines, upTail, pos, buffer>>

\* reader.read() rejects: the catch block.
UpstreamError ==
  /\ ppc = "reading"
  /\ upFailed' = TRUE
  /\ IF bodyState = "readable"
     THEN /\ out' = Append(out, ErrorEvent)
          /\ bodyState' = "closed"
          /\ ppc' = "returned"
          /\ readerLocked' = FALSE
     ELSE EnqueueThrew
  /\ UNCHANGED <<upLines, upTail, pos, buffer>>

\* The client closes the connection: the body is cancelled and cancel() runs,
\* which only logs.
ClientCancel ==
  /\ ppc # "init"
  /\ bodyState = "readable"
  /\ bodyState' = "cancelled"
  /\ UNCHANGED <<upLines, upTail, pos, buffer, out, ppc, readerLocked, upFailed>>

\* ============================================================ CONSUMER ==

\* What the UI may pass to sendMessage, and what a text-delta may carry.
Texts == { <<"sp">>, <<"h">> }
Deltas == { <<"a">>, <<"b", "c">> }
ErrMsgs == { "rate limited" }

\* The deltas of a sequence, joined in order.
RECURSIVE ConcatAll(_)
ConcatAll(ds) == IF ds = <<>> THEN <<>> ELSE Head(ds) \o ConcatAll(Tail(ds))

Last(s) == s[Len(s)]
ButLast(s) == SubSeq(s, 1, Len(s) - 1)

\* const isLoading = status === 'streaming'
isLoading == status = "streaming"
isStreaming == isLoading
streamError == error

\* msg === messages[j] with msg = messages[i]: one index, or two entries
\* that are both the object a request keeps writing its answer into.
SameObject(msgs, i, j) ==
  \/ i = j
  \/ msgs[i].live /\ msgs[j].live /\ msgs[i].id = msgs[j].id

\* formattedMessages: the list the hook (and ChatContainer) exposes.
FormatMessage(msgs, st, err, i) ==
  [ id |-> msgs[i].id,
    role |-> msgs[i].role,
    content |-> msgs[i].text,
    status |-> IF st = "streaming" /\ SameObject(msgs, i, Len(msgs)) THEN "streaming"
               ELSE IF err # Null THEN "failed"
               ELSE "complete" ]

Formatted(msgs, st, err) == [i \in 1..Len(msgs) |-> FormatMessage(msgs, st, err, i)]

formattedMessages == Formatted(messages, status, error)

\* useChat's makeRequest up to its first await: status submitted, error
\* cleared, a fresh response state with a generated assistant message id.
NewResponse(id) ==
  [ msgId |-> id, deltas |-> <<>>, text |-> <<>>, written |-> FALSE, open |-> TRUE ]

\* A request that is over: makeRequest has returned and its state is dropped.
ClosedResponse ==
  [ msgId |-> 0, deltas |-> <<>>, text |-> <<>>, written |-> FALSE, open |-> FALSE ]

\* The hook's sendMessage(content): useChat.sendMessage({ text: content }).
sendMessage(content) ==
  /\ Len(responses) < MaxSends
  /\ messages' = Append(messages, [id |-> nextId, role |-> "user", text |-> content, live |-> FALSE])
  /\ status' = "submitted"
  /\ error' = Null
  /\ responses' = Append(responses, NewResponse(nextId + 1))
  /\ nextId' = nextId + 2
  /\ UNCHANGED <<nDeltas>>
  /\ UNCHANGED pvars

\* `write` of makeRequest: status streaming, then the response's message
\* replaces the last message if that is it, and is pushed otherwise.
\* replaceMessage stores a structuredClone of the response's message;
\* pushMessage stores the message object itself (live), which the request
\* goes on writing into, so that every entry holding it shows its text.
WriteMessage(msgs, r) ==
  LET m(lv) == [id |-> r.msgId, role |-> "assistant", text |-> r.text, live |-> lv]
      written == [i \in 1..Len(msgs) |->
                    IF msgs[i].live /\ msgs[i].id = r.msgId
                    THEN [msgs[i] EXCEPT !.text = r.text] ELSE msgs[i]]
  IN IF msgs # <<>> /\ Last(msgs).id = r.msgId
     THEN Append(ButLast(written), m(FALSE))
     ELSE Append(written, m(TRUE))

\* The text replaced by the delta instead of extended by it.
AppendDelta_Replace(text, delta) == delta

\* textPart.text += delta
AppendDelta(text, delta) == text \o delta

\* The first part of response rid arrives (text-start): an empty text part.
StreamStart(rid) ==
  /\ rid \in 1..Len(responses)
  /\ responses[rid].open
  /\ ~responses[rid].written
  /\ LET r == [responses[rid] EXCEPT !.written = TRUE] IN
       /\ responses' = [responses EXCEPT ![rid] = r]
       /\ messages' = WriteMessage(messages, r)
  /\ status' = "streaming"
  /\ UNCHANGED <<error, nextId, nDeltas>>
  /\ UNCHANGED pvars

\* A text-delta of response rid arrives.
StreamDelta(rid, delta) ==
  /\ rid \in 1..Len(responses)
  /\ responses[rid].open
  /\ responses[rid].written
  /\ nDeltas < MaxDeltas
  /\ nDeltas' = nDeltas + 1
  /\ LET r == [responses[rid] EXCEPT !.deltas = Append(@, delta),
                                     !.text = AppendDelta(@, delta)] IN
       /\ responses' = [responses EXCEPT ![rid] = r]
       /\ messages' = WriteMessage(messages, r)
  /\ status' = "streaming"
  /\ UNCHANGED <<error, nextId>>
  /\ UNCHANGED pvars

\* An end of stream that leaves the last delta behind.
StreamFinish_DropsPending(rid) ==
  /\ rid \in 1..Len(responses)
  /\ responses[rid].open
  /\ responses' = [responses EXCEPT ![rid] = ClosedResponse]
  /\ status' = "ready"
  /\ messages' = IF responses[rid].deltas = <<>> THEN messages
                 ELSE WriteMessage(messages,
                        [responses[rid] EXCEPT !.text = ConcatAll(ButLast(responses[rid].deltas))])
  /\ UNCHANGED <<error, nextId, nDeltas>>
  /\ UNCHANGED pvars

\* The stream of response rid ends normally.
StreamFinish(rid) ==
  /\ rid \in 1..Len(responses)
  /\ responses[rid].open
  /\ responses' = [responses EXCEPT ![rid] = ClosedResponse]
  /\ status' = "ready"
  /\ UNCHANGED <<messages, error, nextId, nDeltas>>
  /\ UNCHANGED pvars

\* The request of response rid fails (the fetch rejects, the response is not
\* ok, or the stream carries an error part): the catch block of makeRequest.
StreamFail(rid, m) ==
  /\ rid \in 1..Len(responses)
  /\ responses[rid].open
  /\ responses' = [responses EXCEPT ![rid] = ClosedResponse]
  /\ status' = "error"
  /\ error' = m
  /\ UNCHANGED <<messages, nextId, nDeltas>>
  /\ UNCHANGED pvars

\* The error the transport throws for a part that is not valid JSON or whose
\* type is not a part type it knows.
ParseErrMsg == "Type validation failed"

\* A part of response rid arrives that does not parse or has an unknown
\* type: the transport throws and makeRequest's catch block runs.
StreamMalformed(rid) == StreamFail(rid, ParseErrMsg)

\* A retry that takes the prompt away together with the failed answer.
retryMessage_DropsPrompt(messageId) ==
  /\ Len(responses) < MaxSends
  /\ messages # <<>>
  /\ messages' = IF Last(messages).role = "assistant"
                 THEN ButLast(ButLast(messages)) ELSE messages
  /\ status' = "submitted"
  /\ error' = Null
  /\ responses' = Append(responses, NewResponse(nextId))
  /\ nextId' = nextId + 1
  /\ UNCHANGED <<nDeltas>>
  /\ UNCHANGED pvars

\* The hook's retryMessage(messageId): the id is not looked at, and
\* useChat.regenerate() is called with no message id.  The last message is
\* dropped when it is an assistant message, then makeRequest.  On an empty
\* list regenerate throws and nothing changes.
retryMessage(messageId) ==
  /\ Len(responses) < MaxSends
  /\ messages # <<>>
  /\ messages' = IF Last(messages).role = "assistant" THEN ButLast(messages) ELSE messages
  /\ status' = "submitted"
  /\ error' = Null
  /\ responses' = Append(responses, NewResponse(nextId))
  /\ nextId' = nextId + 1
  /\ UNCHANGED <<nDeltas>>
  /\ UNCHANGED pvars

\* A cancel that takes the last message away at every call.
cancelStream_DropsLast ==
  /\ messages' = IF messages = <<>> THEN messages ELSE ButLast(messages)
  /\ UNCHANGED <<status, error, responses, nextId, nDeltas>>
  /\ UNCHANGED pvars

\* The hook's cancelStream(): an empty function.
cancelStream == UNCHANGED <<messages, status, error, responses, nextId, nDeltas>> /\ UNCHANGED pvars

InitConsumer ==
  /\ messages = <<>>
  /\ status = "ready"
  /\ error = Null
  /\ responses = <<>>
  /\ nextId = 1
  /\ nDeltas = 0
  /\ lastCall = "none"
  /\ idle = 0

\* No request has come in to the route.
InitNoRequest ==
  /\ request = NoRequest
  /\ response = NoResponse
  /\ upstreamCalls = <<>>

\* ======================================================== MESSAGE INPUT ==

\* The characters of the textarea: "sp" stands for any white space.
Chars == { "sp", "h", "i" }

\* The maxLength prop.
maxLength == MaxLength

\* What a change event may carry: any text, one character too long included.
NewValues == UNION { [1..n -> Chars] : n \in 0..(maxLength + 1) }

KeyNames == { "Enter", "a" }

trimmedValue == Trim(inputValue)

\* A send button that looks at the text only.
isSendDisabled_IgnoresProp == Len(trimmedValue) = 0

isSendDisabled == isDisabled \/ Len(trimmedValue) = 0

\* The component as mounted, the untouched textarea.
InitNoInput ==
  /\ inputValue = <<>>
  /\ isDisabled = FALSE
  /\ sent = <<>>

InitInput ==
  /\ inputValue = <<>>
  /\ isDisabled \in BOOLEAN
  /\ sent = <<>>

handleInputChange(newValue) ==
  /\ IF Len(newValue) > maxLength THEN UNCHANGED inputValue ELSE inputValue' = newValue
  /\ sent' = <<>>
  /\ UNCHANGED isDisabled

\* handleSendMessage, also the onClick of the send button.
handleSendMessage ==
  /\ IF isSendDisabled THEN sent' = <<>> /\ UNCHANGED inputValue
     ELSE LET messageContent == trimmedValue IN
          IF messageContent # <<>>
          THEN /\ sent' = <<[content |-> messageContent, disabled |-> isDisabled]>>
               /\ inputValue' = <<>>
          ELSE sent' = <<>> /\ UNCHANGED inputValue
  /\ UNCHANGED isDisabled

handleKeyDown(key, shiftKey, ctrlKey, metaKey) ==
  IF isDisabled THEN sent' = <<>> /\ UNCHANGED <<inputValue, isDisabled>>
  ELSE IF key = "Enter"
       THEN IF shiftKey THEN sent' = <<>> /\ UNCHANGED <<inputValue, isDisabled>>
            ELSE handleSendMessage
       ELSE sent' = <<>> /\ UNCHANGED <<inputValue, isDisabled>>

\* The parent renders the component with another isDisabled.
Render(d) ==
  /\ d # isDisabled
  /\ isDisabled' = d
  /\ sent' = <<>>
  /\ UNCHANGED inputValue

\* --------------------------------------------------------- specifications

\* The consumer; the producer's variables stay as constructed.
Init ==
  /\ InitConsumer
  /\ InitNoRequest
  /\ InitNoInput
  /\ upLines = <<>> /\ upTail = <<>> /\ pos = 0 /\ buffer = <<>> /\ out = <<>>
  /\ bodyState = "readable" /\ ppc = "init" /\ readerLocked = FALSE /\ upFailed = FALSE

\* The ids retryMessage may be called with: those handed out so far, and 0,
\* which no message has.
RetryIds == 0..(nextId - 1)

\* A message with this id exists, is an assistant message and is failed.
Retryable(id) ==
  \E i \in 1..Len(formattedMessages) :
    /\ formattedMessages[i].id = id
    /\ formattedMessages[i].role = "assistant"
    /\ formattedMessages[i].status = "failed"

\* The step is a wire event, or a call of sendMessage.
Unlogged == lastCall' = "none" /\ UNCHANGED idle /\ UNCHANGED hvars /\ UNCHANGED ivars

\* The step is a call of retryMessage(messageId).
LoggedRetry(messageId) ==
  /\ lastCall' = IF Retryable(messageId) THEN "retryMessage of a failed assistant message"
                 ELSE "retryMessage"
  /\ UNCHANGED idle
  /\ UNCHANGED hvars /\ UNCHANGED ivars

\* The step is a call of cancelStream().
LoggedCancel ==
  /\ lastCall' = IF lastCall \in {"cancelStream", "cancelStream again"}
                 THEN "cancelStream again" ELSE "cancelStream"
  /\ UNCHANGED idle
  /\ UNCHANGED hvars /\ UNCHANGED ivars

Next ==
  \/ \E content \in Texts : sendMessage(content) /\ Unlogged
  \/ \E rid \in 1..MaxSends : StreamStart(rid) /\ Unlogged
  \/ \E rid \in 1..MaxSends, delta \in Deltas : StreamDelta(rid, delta) /\ Unlogged
  \/ \E rid \in 1..MaxSends : StreamFinish(rid) /\ Unlogged
  \/ \E rid \in 1..MaxSends, m \in ErrMsgs : StreamFail(rid, m) /\ Unlogged
  \/ \E id \in RetryIds : retryMessage(id) /\ LoggedRetry(id)

Spec == Init /\ [][Next]_vars

\* The same program with the UI calling cancelStream() as well.
NextCancel ==
  \/ \E content \in Texts : sendMessage(content) /\ Unlogged
  \/ \E rid \in 1..MaxSends : StreamStart(rid) /\ Unlogged
  \/ \E rid \in 1..MaxSends, delta \in Deltas : StreamDelta(rid, delta) /\ Unlogged
  \/ \E rid \in 1..MaxSends : StreamFinish(rid) /\ Unlogged
  \/ \E rid \in 1..MaxSends, m \in ErrMsgs : StreamFail(rid, m) /\ Unlogged
  \/ \E id \in RetryIds : retryMessage(id) /\ LoggedRetry(id)
  \/ cancelStream /\ LoggedCancel

SpecCancel == Init /\ [][NextCancel]_vars

\* StreamConfig's documented defaults, in milliseconds.
debounceMs == 50
timeoutMs == 30000

\* A wire event arrives, or a request is sent: the inactivity window restarts.
Timed == lastCall' = "none" /\ idle' = 0 /\ UNCHANGED hvars /\ UNCHANGED ivars

\* The instants after a wire event at which the time passed is compared with
\* debounceMs or timeoutMs; the instants between them differ in nothing.
Instants == { debounceMs, timeoutMs - 1, timeoutMs, timeoutMs + debounceMs }

\* Time passes with no wire event, up to a later instant t.  The hook sets no
\* timer, so nothing of it changes.
Tick(t) ==
  /\ t > idle
  /\ idle' = t
  /\ UNCHANGED <<messages, status, error, responses, nextId, nDeltas, lastCall>>
  /\ UNCHANGED pvars
  /\ UNCHANGED hvars /\ UNCHANGED ivars

\* The hook under a user who sends one message at a time, with time passing.
NextTimed ==
  \/ \E content \in Texts :
       (\A rid \in 1..Len(responses) : ~responses[rid].open) /\ sendMessage(content) /\ Timed
  \/ \E rid \in 1..MaxSends : StreamStart(rid) /\ Timed
  \/ \E rid \in 1..MaxSends, delta \in Deltas : StreamDelta(rid, delta) /\ Timed
  \/ \E rid \in 1..MaxSends : StreamFinish(rid) /\ Timed
  \/ \E rid \in 1..MaxSends, m \in ErrMsgs : StreamFail(rid, m) /\ Timed
  \/ \E rid \in 1..MaxSends : StreamMalformed(rid) /\ Timed
  \/ \E t \in Instants : Tick(t)

SpecTimed == Init /\ [][NextTimed]_vars

\* ------------------------------------------------------ consumer claims

fm == formattedMessages

NoActiveSession == \A rid \in 1..Len(responses) : ~responses[rid].open

\* C1: while isStreaming is true, sendMessage(text), for any text, leaves the
\* message list as it was and opens no request.
C1_AtMostOneActive ==
  [][ \A t \in Texts :
        (isStreaming /\ sendMessage(t))
          => (formattedMessages' = formattedMessages /\ responses' = responses) ]_vars

\* The message of an open response that is the last message of the list
\* carries the concatenation of the deltas delivered for that response.
OrderingOpen ==
  \A rid \in 1..Len(responses) :
    LET r == responses[rid] IN
    (r.open /\ r.written /\ messages # <<>> /\ Last(messages).id = r.msgId)
      => Last(fm).content = ConcatAll(r.deltas)

\* When the stream of such a response ends, that is the final content.
OrderingFinal ==
  \A rid \in 1..Len(responses) :
    LET r == responses[rid] IN
    (StreamFinish(rid) /\ r.written /\ messages # <<>> /\ Last(messages).id = r.msgId)
      => /\ Len(fm') = Len(fm)
         /\ Last(fm').id = r.msgId
         /\ Last(fm').content = ConcatAll(r.deltas)

C8_CompleteIsTerminal ==
  [][ \A i \in 1..Len(fm) :
        (fm[i].role = "assistant" /\ fm[i].status = "complete")
          => /\ i <= Len(fm')
             /\ fm'[i].id = fm[i].id
             /\ fm'[i].content = fm[i].content
             /\ fm'[i].status = "complete" ]_vars

UserMessagesComplete ==
  \A i \in 1..Len(fm) : fm[i].role = "user" => fm[i].status = "complete"

UserMessagesFrozen ==
  \A i \in 1..Len(fm) :
    fm[i].role = "user"
      => /\ i <= Len(fm')
         /\ fm'[i].role = "user"
         /\ fm'[i].id = fm[i].id
         /\ fm'[i].content = fm[i].content

\* C9: every user message has status complete in every state, and keeps its
\* id and content from one state to the next.
C9_UserMessagesImmutable == []UserMessagesComplete /\ [][UserMessagesFrozen]_vars

\* C10: sendMessage(text) with non-blank text and no active session appends,
\* in that one step, a complete user message carrying text and then a
\* streaming assistant message with empty content, and isStreaming is true
\* right after.
C10_SendAppendsPair ==
  [][ \A t \in Texts :
        (Trim(t) # <<>> /\ NoActiveSession /\ sendMessage(t))
          => /\ Len(fm') = Len(fm) + 2
             /\ SubSeq(fm', 1, Len(fm)) = fm
             /\ fm'[Len(fm) + 1].role = "user"
             /\ fm'[Len(fm) + 1].content = t
             /\ fm'[Len(fm) + 1].status = "complete"
             /\ fm'[Len(fm) + 2].role = "assistant"
             /\ fm'[Len(fm) + 2].content = <<>>
             /\ fm'[Len(fm) + 2].status = "streaming"
             /\ isStreaming' ]_vars

\* The producer of one request; the consumer's variables stay as constructed.
InitP == InitProducer /\ InitConsumer /\ InitNoRequest /\ InitNoInput

NextP ==
  \/ ProducerStart /\ UNCHANGED cvars /\ UNCHANGED evars /\ UNCHANGED hvars /\ UNCHANGED ivars
  \/ (\E k \in 1..(Len(Upstream) - pos) : UpstreamRead(k)) /\ UNCHANGED cvars /\ UNCHANGED evars /\ UNCHANGED hvars /\ UNCHANGED ivars
  \/ UpstreamEnd /\ UNCHANGED cvars /\ UNCHANGED evars /\ UNCHANGED hvars /\ UNCHANGED ivars
  \/ UpstreamError /\ UNCHANGED cvars /\ UNCHANGED evars /\ UNCHANGED hvars /\ UNCHANGED ivars
  \/ ClientCancel /\ UNCHANGED cvars /\ UNCHANGED evars /\ UNCHANGED hvars /\ UNCHANGED ivars

SpecProducer == InitP /\ [][NextP]_vars

\* The POST handler answering one request; the rest stays as constructed.
InitPost ==
  /\ InitConsumer
  /\ upLines = <<>> /\ upTail = <<>> /\ pos = 0 /\ buffer = <<>> /\ out = <<>>
  /\ bodyState = "readable" /\ ppc = "init" /\ readerLocked = FALSE /\ upFailed = FALSE
  /\ request \in Requests
  /\ response = NoResponse
  /\ upstreamCalls = <<>>
  /\ InitNoInput

NextPost ==
  \/ POST /\ UNCHANGED pvars /\ UNCHANGED cvars /\ UNCHANGED evars /\ UNCHANGED ivars
  \/ \E libraryThrows \in BOOLEAN :
       ChatPOST(libraryThrows) /\ UNCHANGED pvars /\ UNCHANGED cvars /\ UNCHANGED evars
                               /\ UNCHANGED ivars

SpecPost == InitPost /\ [][NextPost]_vars

\* The MessageInput component alone; the rest stays as constructed.
InitI ==
  /\ InitConsumer
  /\ InitNoRequest
  /\ upLines = <<>> /\ upTail = <<>> /\ pos = 0 /\ buffer = <<>> /\ out = <<>>
  /\ bodyState = "readable" /\ ppc = "init" /\ readerLocked = FALSE /\ upFailed = FALSE
  /\ InitInput

NextInput ==
  \/ (\E newValue \in NewValues : handleInputChange(newValue))
       /\ UNCHANGED pvars /\ UNCHANGED cvars /\ UNCHANGED evars /\ UNCHANGED hvars
  \/ (\E key \in KeyNames, shiftKey \in BOOLEAN, ctrlKey \in BOOLEAN, metaKey \in BOOLEAN :
        handleKeyDown(key, shiftKey, ctrlKey, metaKey))
       /\ UNCHANGED pvars /\ UNCHANGED cvars /\ UNCHANGED evars /\ UNCHANGED hvars
  \/ handleSendMessage
       /\ UNCHANGED pvars /\ UNCHANGED cvars /\ UNCHANGED evars /\ UNCHANGED hvars
  \/ (\E d \in BOOLEAN : Render(d))
       /\ UNCHANGED pvars /\ UNCHANGED cvars /\ UNCHANGED evars /\ UNCHANGED hvars

SpecInput == InitI /\ [][NextInput]_vars

\* ------------------------------------------------------ producer claims

RECURSIVE SumLen(_)
SumLen(ks) == IF ks = <<>> THEN 0 ELSE Len(LineKinds[Head(ks)]) + SumLen(Tail(ks))

\* The lines of the Token Source that have been read up to their line feed.
ReceivedLines ==
  LET n == CHOOSE m \in 0..Len(upLines) :
             /\ SumLen(SubSeq(upLines, 1, m)) <= pos
             /\ \A j \in (m + 1)..Len(upLines) : SumLen(SubSeq(upLines, 1, j)) > pos
  IN SubSeq(upLines, 1, n)

\* The non-empty fragments the Token Source meant by those lines, up to its
\* [DONE] marker.
RECURSIVE MeantFragments(_)
MeantFragments(ks) ==
  IF ks = <<>> \/ Head(ks) = DoneKind THEN <<>>
  ELSE (IF KindFragment[Head(ks)] # "" THEN <<KindFragment[Head(ks)]>> ELSE <<>>)
         \o MeantFragments(Tail(ks))

RECURSIVE BeforeDone(_)
BeforeDone(ks) ==
  IF ks = <<>> \/ Head(ks) = DoneKind THEN <<>> ELSE <<Head(ks)>> \o BeforeDone(Tail(ks))

IsChunk(e) == e.type = "chunk"
IsTerminal(e) == e.type \in {"complete", "error"}
IsError(e) == e.type = "error"

ChunkDeltas(o) == LET cs == SelectSeq(o, IsChunk) IN [i \in 1..Len(cs) |-> cs[i].delta]
TerminalCount(o) == Len(SelectSeq(o, IsTerminal))
ErrorCount(o) == Len(SelectSeq(o, IsError))

\* C3: while the client is connected, the deltas of the chunk events written
\* so far are exactly the non-empty fragments received so far, one chunk per
\* fragment, in the Token Source's order.
C3_OneChunkPerFragment ==
  (ppc \in {"reading", "returned"} /\ bodyState # "cancelled")
    => ChunkDeltas(out) = MeantFragments(ReceivedLines)

\* C3 witness: three fragments have been written as three chunks in order,
\* and the next line is held incomplete in the buffer.
C3_Witness ==
  /\ ppc = "reading"
  /\ bodyState = "readable"
  /\ ChunkDeltas(out) = <<"a", "b", "a">>
  /\ buffer # <<>>
  /\ pos < Len(Upstream)

\* C4: a response body holds at most one terminal event (complete or error),
\* nothing is written after it, and a body start() has finished writing
\* holds exactly one.
C4_OneTerminalEvent ==
  /\ TerminalCount(out) <= 1
  /\ TerminalCount(out) = 1 => IsTerminal(out[Len(out)])
  /\ ppc = "returned" => TerminalCount(out) = 1
  /\ ppc = "reading" => TerminalCount(out) = 0

\* C4 witness: the [DONE] marker was followed by more lines in the same read,
\* and the body ends with the one complete event.
C4_Witness ==
  /\ ppc = "returned"
  /\ bodyState = "closed"
  /\ out[Len(out)] = Complete
  /\ Len(out) >= 3
  /\ Len(ReceivedLines) > Len(BeforeDone(ReceivedLines)) + 1

\* C5: once the Token Source has completed, by its [DONE] marker or by ending
\* its stream, the body ends with a complete event and is closed.
C5_CompletionCloses ==
  (ppc = "returned" /\ ~upFailed)
    => (out[Len(out)] = Complete /\ bodyState # "readable")

MalformedProcessed == \E i \in 1..Len(BeforeDone(ReceivedLines)) : ReceivedLines[i] = MalformedKind

C7_NoReadAfterDisconnect == [][bodyState = "cancelled" => pos' = pos]_vars

\* ------------------------------------------- errors, cancel and retry

\* No message is shown streaming and the hook does not report streaming.
SlotReleased ==
  /\ ~isStreaming
  /\ \A i \in 1..Len(fm) : fm[i].status # "streaming"

\* The observable state of the hook.
Observable == <<fm, isStreaming, streamError>>

\* C11: when the request of a session fails with message m, the assistant
\* message of that session is in the list and becomes failed, every other
\* message keeps its status, streamError is m and isStreaming is false.
C11_ErrorFailsThatMessage ==
  [][ \A rid \in 1..Len(responses), m \in ErrMsgs :
        StreamFail(rid, m)
          => /\ streamError' = m
             /\ ~isStreaming'
             /\ Len(fm') = Len(fm)
             /\ \E i \in 1..Len(fm) : fm[i].id = responses[rid].msgId
             /\ \A i \in 1..Len(fm) :
                  fm'[i].status = IF fm[i].id = responses[rid].msgId
                                  THEN "failed" ELSE fm[i].status ]_vars

\* C12: after a failed request, and after timeoutMs without a wire event, no
\* message is streaming and isStreaming is false; after a failed request a
\* sendMessage with a non-empty text is accepted.
C12_SlotReleased ==
  /\ [][ \A rid \in 1..Len(responses), m \in ErrMsgs :
           StreamFail(rid, m) => SlotReleased' ]_vars
  /\ [](idle > timeoutMs => SlotReleased)
  /\ []((status = "error" /\ Len(responses) < MaxSends)
          => ENABLED sendMessage(<<"h">>))

\* C13: after cancelStream() no request is in flight, isStreaming is false
\* and no message is shown streaming.
C13_CancelAborts ==
  (lastCall \in {"cancelStream", "cancelStream again"})
    => (NoActiveSession /\ SlotReleased)

\* C14: a cancelStream() that follows a cancelStream(), and a cancelStream()
\* with no session active, leave messages, isStreaming and streamError as
\* they were.
C14_CancelIdempotent ==
  [][ (cancelStream /\ LoggedCancel
         /\ (lastCall \in {"cancelStream", "cancelStream again"} \/ NoActiveSession))
        => Observable' = Observable ]_vars

\* C14 witness: cancelStream() has been called twice in a row while a
\* session was streaming its answer.
C14_Witness ==
  /\ lastCall = "cancelStream again"
  /\ isStreaming
  /\ ~NoActiveSession
  /\ Last(fm).status = "streaming"
  /\ Last(fm).content = <<"a">>

\* C15: retryMessage(id) leaves messages, isStreaming and streamError as they
\* were and opens no request, unless id is the id of a failed assistant
\* message.
C15_RetryOnlyFailedAssistant ==
  [][ \A id \in RetryIds :
        (retryMessage(id) /\ ~Retryable(id))
          => (Observable' = Observable /\ responses' = responses) ]_vars

\* C16: retryMessage(id) on a failed assistant message keeps that message at
\* its place with its id, with content "" and status streaming, sets
\* isStreaming, and opens a new request.
C16_RetryResetsInPlace ==
  [][ \A id \in RetryIds :
        (retryMessage(id) /\ Retryable(id))
          => /\ Len(fm') = Len(fm)
             /\ \A i \in 1..Len(fm) :
                  fm[i].id = id
                    => /\ fm'[i].id = id
                       /\ fm'[i].content = <<>>
                       /\ fm'[i].status = "streaming"
             /\ isStreaming'
             /\ Len(responses') = Len(responses) + 1
             /\ Last(responses').open ]_vars

\* C17: retryMessage(id) on a failed assistant message leaves the user
\* message before it at its place, with its id and its content.
C17_RetryPreservesPrompt ==
  [][ \A id \in RetryIds :
        (retryMessage(id) /\ Retryable(id))
          => \A i \in 2..Len(fm) :
               (fm[i].id = id /\ fm[i - 1].role = "user")
                 => /\ i - 1 <= Len(fm')
                    /\ fm'[i - 1].id = fm[i - 1].id
                    /\ fm'[i - 1].role = "user"
                    /\ fm'[i - 1].content = fm[i - 1].content ]_vars

\* C17 witness: a failed assistant message has been retried and the prompt
\* is the last message of the list.
C17_Witness ==
  /\ lastCall = "retryMessage of a failed assistant message"
  /\ Len(fm) = 1
  /\ fm[1].role = "user"
  /\ fm[1].content = <<"sp">>
  /\ ~NoActiveSession

\* ------------------------------------------------ timeout and debounce

\* C18: once more than timeoutMs have passed since the last wire event no
\* request is in flight and no message is shown streaming; time passing up
\* to an instant before timeoutMs changes nothing.
C18_Timeout ==
  /\ []((idle > timeoutMs)
          => /\ NoActiveSession
             /\ \A i \in 1..Len(fm) : fm[i].status \in {"failed", "complete"})
  /\ [][ \A t \in Instants :
           (Tick(t) /\ t < timeoutMs)
             => (Observable' = Observable /\ responses' = responses) ]_vars

\* C19: a delta that arrives less than debounceMs after the delta before it
\* changes nothing the UI observes at its arrival.
C19_DebounceBound ==
  [][ \A rid \in 1..Len(responses), delta \in Deltas :
        (StreamDelta(rid, delta) /\ responses[rid].deltas # <<>> /\ idle < debounceMs)
          => fm' = fm ]_vars

C22_BlankSendIsNoOp ==
  [][ \A content \in Texts :
        (sendMessage(content) /\ Trim(content) = <<>>)
          => (Observable' = Observable /\ responses' = responses) ]_vars

\* C23: no step removes a message, and the messages in the list keep their
\* ids and their order.
C23_AppendOnly ==
  [][ /\ Len(fm') >= Len(fm)
      /\ \A i \in 1..Len(fm) : fm'[i].id = fm[i].id ]_vars

\* C24: a wire event that does not parse, or has an unknown type, changes no
\* message, leaves isStreaming and streamError as they were, and leaves the
\* session open for the events that follow.
C24_MalformedEventDiscarded ==
  [][ \A rid \in 1..Len(responses) :
        StreamMalformed(rid)
          => (Observable' = Observable /\ responses' = responses) ]_vars

\* ------------------------------------------------------- the endpoint

\* The messages field is missing, is not an array, is empty, or holds an
\* element without id, with a role outside {user, assistant} or with a
\* content that is not a string.
BadMessages(body) ==
  \/ body.json = "null"
  \/ body.messages.t # "array"
  \/ body.messages.items = <<>>
  \/ \E i \in 1..Len(body.messages.items) :
       LET message == body.messages.items[i] IN
       \/ message.t = "null"
       \/ message.id = Undef
       \/ message.role \notin { Str("user"), Str("assistant") }
       \/ message.content.t # "string"

\* The body carries messages, a non-empty array whose every element has an
\* id, a role in {user, assistant} and a string as content.
GoodMessages(body) == body.json = "object" /\ ~BadMessages(body)

PassesValidation(body) ==
  /\ body.json = "object"
  /\ ~validateStreamRequest(body).threw
  /\ validateStreamRequest(body).isValid

KeySet == request.key.t = "string" /\ request.key.v # ""

\* The validation of the route of a request lets its body through.
ChatPassesValidation(body) ==
  body.json = "object" /\ body.messages.t = "array" /\ body.messages.items # <<>>
Passes(req) ==
  IF req.route = StreamRoute THEN PassesValidation(req.body)
  ELSE ChatPassesValidation(req.body)

\* The request has been answered by the POST of the streaming route.
StreamHandled == request.handled /\ request.route = StreamRoute

RecognizedModels == { "gpt-4", "gpt-3.5-turbo" }

\* C25: a request whose messages are missing or malformed is answered with
\* status 400 and a JSON error body, and nothing is sent to the Token Source.
C25_InvalidRequestIs400 ==
  (StreamHandled /\ request.body.json # "invalid" /\ BadMessages(request.body))
    => /\ response.status = 400
       /\ response.kind = "json"
       /\ response.error # ""
       /\ upstreamCalls = <<>>

\* C26: a request whose every message has an id, a role in {user, assistant}
\* and a string content, the empty string included, is not answered with 400.
C26_ValidRequestIsNot400 ==
  (StreamHandled /\ GoodMessages(request.body)) => response.status # 400

\* C27: a request that passes validation, with the key configured and the
\* Token Source answering with success and a body, is answered with status
\* 200 and the three event-stream headers.
C27_StreamingResponse ==
  (/\ StreamHandled
   /\ PassesValidation(request.body)
   /\ KeySet
   /\ request.upstream = "ok with body")
    => /\ response.status = 200
       /\ { <<"Content-Type", "text/event-stream">>,
            <<"Cache-Control", "no-cache">>,
            <<"Connection", "keep-alive">> } \subseteq response.headers

\* C28: a request that passes validation while the key is not configured is
\* answered with status 500 and the JSON error body of the key check, not a
\* stream, and nothing is sent to the Token Source.
C28_MissingKeyIs500 ==
  (request.handled /\ Passes(request) /\ ~KeySet)
    => /\ response.status = 500
       /\ response.kind = "json"
       /\ response.error = "OpenAI API key not configured"
       /\ upstreamCalls = <<>>

\* C28 witness: a request with two valid messages has been answered with 500
\* while the key was not set.
C28_Witness ==
  /\ request.handled
  /\ request.key = Undef
  /\ PassesValidation(request.body)
  /\ Len(request.body.messages.items) = 2
  /\ response.status = 500
  /\ upstreamCalls = <<>>

\* C29: the first event written to the body is a heartbeat, and nothing has
\* been read from the Token Source before it is written.
C29_HeartbeatFirst ==
  /\ out # <<>> => out[1] = Heartbeat
  /\ (pos > 0 \/ ppc # "init") => (out # <<>> /\ out[1] = Heartbeat)

\* C29 witness: a chunk has been written after the heartbeat.
C29_Witness ==
  /\ pos > 0
  /\ Len(out) >= 2
  /\ out[1] = Heartbeat
  /\ IsChunk(out[2])

\* C30: for a request that is served whose model is absent or not a
\* recognized one, the model sent to the Token Source is gpt-4 and the
\* request does not fail.
C30_FallbackModel ==
  (/\ StreamHandled
   /\ PassesValidation(request.body)
   /\ KeySet
   /\ request.upstream = "ok with body"
   /\ request.body.model \notin { Str(m) : m \in RecognizedModels })
    => /\ response.status = 200
       /\ Len(upstreamCalls) = 1
       /\ upstreamCalls[1].model = "gpt-4"

C35_ValidationFirst ==
  (request.handled /\ request.body.json = "object" /\ ~Passes(request))
    => (response.status = 400 /\ upstreamCalls = <<>>)

\* C36: each POST handler answers every request with a response of status
\* 200, 400 or 500, and a response that is not 200 is a JSON error body.
C36_AlwaysAResponse ==
  request.handled
    => /\ response.status \in {200, 400, 500}
       /\ response.status # 200 => (response.kind = "json" /\ response.error # "")

\* C36 witness: the JSON body null has been answered by the outer catch of
\* the streaming route.
C36_Witness ==
  /\ StreamHandled
  /\ request.body.json = "null"
  /\ response.status = 500
  /\ response.error = "Internal server error"

\* The events a response carries when the whole upstream output arrives in
\* one read that is followed by the end of the upstream body.
OneReadEvents ==
  LET lines == SplitNL(Upstream, <<>>)
      r == ProcessLines(CompleteLines(lines), <<Heartbeat>>, TRUE)
  IN IF r.res = "done" THEN r.out ELSE Append(r.out, Complete)

IsPrefix(s, t) == Len(s) <= Len(t) /\ s = SubSeq(t, 1, Len(s))

\* C37: however the upstream output is split into reads, the events written
\* are at every moment a prefix of the events of the same output delivered
\* in one read, and are exactly those events once the Producer has returned
\* without an upstream failure.
C37_SplitIndependent ==
  (ppc # "init" /\ ~upFailed)
    => /\ IsPrefix(out, OneReadEvents)
       /\ ppc = "returned" => out = OneReadEvents

\* C37 witness: a read has ended inside a line (the buffer holds its first
\* part, the rest is still to come) after a chunk had been written.
C37_Witness ==
  /\ ppc = "reading"
  /\ ~upFailed
  /\ buffer # <<>>
  /\ pos < Len(Upstream)
  /\ Upstream[pos + 1] # "nl"
  /\ \E i \in 1..Len(out) : out[i].type = "chunk"

\* C31: every Producer instance opens exactly one upstream connection: once
\* POST has answered a valid request with the key set, one request, for the
\* messages of that request, has been sent to the Token Source.
C31_OneConnectionPerRequest ==
  (StreamHandled /\ PassesValidation(request.body) /\ KeySet)
    => /\ Len(upstreamCalls) = 1
       /\ upstreamCalls[1].messages = convertToOpenAIMessages(request.body.messages.items)

\* C33: every onSendMessage call of MessageInput carries a non-empty text
\* without white space at either end, and is made while isDisabled is false.
C33_SendsTrimmedWhenEnabled ==
  \A i \in 1..Len(sent) :
    /\ sent[i].content # <<>>
    /\ sent[i].content = Trim(sent[i].content)
    /\ ~sent[i].disabled

\* C33 witness: the last step called onSendMessage, with a text that has
\* white space inside, and cleared the textarea.
C33_Witness ==
  /\ sent = <<[content |-> <<"h", "sp", "i">>, disabled |-> FALSE]>>
  /\ inputValue = <<>>

\* The indexes of the exposed messages whose status is streaming.
StreamingIndexes == { i \in 1..Len(fm) : fm[i].status = "streaming" }

\* C34: in every exposed state at most one message is streaming; if one is,
\* it is the last of the list and isStreaming is true; when isStreaming is
\* false no message is streaming.
C34_OnlyLastStreaming ==
  /\ Cardinality(StreamingIndexes) <= 1
  /\ StreamingIndexes # {} => (StreamingIndexes = {Len(fm)} /\ isStreaming)
  /\ ~isStreaming => StreamingIndexes = {}

====
